---- MODULE Spec2Model ----
(***************************************************************************)
(* Model of inaturalist/list_leaf_taxa_by_date.py.                         *)
(*                                                                         *)
(* Two parts of the program carry decision logic:                          *)
(*   - fetch_observations: the cache load, the pagination/retry loop, the   *)
(*     merge with the cached list and the cache write (SpecFetch);          *)
(*   - the reducer inside list_leaf_taxa_by_date: taxon map, ancestor       *)
(*     exclusion, infra-rank collapse, sort and the report rows (SpecReduce).*)
(*                                                                         *)
(* Python's None is modelled as 0 for ids and dates, and as NoTaxon for a   *)
(* missing taxon; taxon and observation ids are positive, so that the       *)
(* truth test "if species_id" is the test "species_id is not None".  A dict *)
(* of info records is the sequence of its values in insertion order; the    *)
(* date dict, which is never iterated, is a function on its keys.  Dates    *)
(* are numbered in calendar order, which is the order of their ISO strings. *)
(* Taxon names are left out: they only pass through title_case into the     *)
(* report row.  The request parameters (among them d1, derived from the     *)
(* last cached date) only narrow what the remote source answers, and the    *)
(* remote source is modelled as answering anything.                         *)
(***************************************************************************)
EXTENDS Integers, Sequences, FiniteSets, TLC

\* ------------------------------------------------------------------ bounds

\* Observation ids the cache and the remote source draw from.
MaxId == 2
\* Longest cached list in the initial cache file.
MaxCache == 2
\* Cap on the number of HTTP requests of one run (the loop itself is unbounded).
MaxRequests == 3
\* Page size; the program uses 200, the model a scaled-down page.
PER_PAGE == 2
\* Taxon ids the observations of the reducer draw from.
MaxTaxon == 3
\* Longest observation list handed to the reducer.
MaxObs == 3
\* Longest ancestor_ids list of a taxon.
MaxAnc == 2
\* Observation dates are 1..MaxDate, in calendar order.
MaxDate == 2

None == 0

\* ------------------------------------------------------------------ helpers

Range(s) == {s[i] : i \in 1..Len(s)}

SeqsUpTo(S, n) == UNION {[1..k -> S] : k \in 0..n}

DistinctIds(s) == \A i, j \in 1..Len(s) : i # j => s[i].id # s[j].id

\* ------------------------------------------------------------------ state

VARIABLES
    pc,                  \* control position of the run
    cacheFile,           \* the cache file on disk: [exists, data, complete]
    observations,        \* fetch_observations: the loaded cached list
    page,                \* fetch_observations: page
    new_observations,    \* fetch_observations: new_observations
    valid_request,       \* fetch_observations: valid_request
    response,            \* fetch_observations: the last response
    numRequests,         \* number of requests.get calls so far
    merged_observations, \* fetch_observations: merged_observations
    numWrites,           \* number of times the cache file was opened for writing
    result,              \* value returned by fetch_observations
    taxon_id_to_info,                \* reducer: dict taxon id -> info, in insertion order
    taxon_id_to_date_first_observed, \* reducer: dict taxon id -> date
    ancestor_ids,                    \* reducer: set of all stored ancestor ids
    leaf_taxon_id_to_info,           \* reducer: dict of the leaf candidates
    collapsed_taxon_id_to_info,      \* reducer: dict after the collapse (the final leaf set)
    sorted_leaf_taxon_id_info_tuples,\* reducer: the sorted output sequence
    rows                             \* rows written to the report file so far

fetchOnly == <<cacheFile, page, new_observations, valid_request, response, numRequests,
               merged_observations, numWrites, result>>

reduceOnly == <<taxon_id_to_info, taxon_id_to_date_first_observed, ancestor_ids,
                leaf_taxon_id_to_info, collapsed_taxon_id_to_info,
                sorted_leaf_taxon_id_info_tuples, rows>>

vars == <<pc, observations, fetchOnly, reduceOnly>>

\* The reducer's variables before the reducer has run.
ReduceIdle ==
    /\ taxon_id_to_info = <<>>
    /\ taxon_id_to_date_first_observed = <<>>
    /\ ancestor_ids = {}
    /\ leaf_taxon_id_to_info = <<>>
    /\ collapsed_taxon_id_to_info = <<>>
    /\ sorted_leaf_taxon_id_info_tuples = <<>>
    /\ rows = <<>>

\* ------------------------------------------------------- fetch_observations

\* Observation records as the fetcher sees them: only the id is inspected.
FetchObs == [id : 1..MaxId]

NoFile == [exists |-> FALSE, data |-> <<>>, complete |-> FALSE]

CompleteFile(list) == [exists |-> TRUE, data |-> list, complete |-> TRUE]

\* A cache file left by an earlier run: absent, or a JSON list with distinct ids.
CacheFiles ==
    {NoFile} \cup {CompleteFile(s) : s \in {t \in SeqsUpTo(FetchObs, MaxCache) : DistinctIds(t)}}

\* One response body: each record of the page listed once.
Pages == {s \in SeqsUpTo(FetchObs, PER_PAGE) : DistinctIds(s)}

NoResponse == [status_code |-> 0, results |-> <<>>]

\* HTTP statuses other than 200, 422 and 429 that the loop retries after 5 s.
OtherStatuses == {500}

InitFetch ==
    /\ pc = "start"
    /\ cacheFile \in CacheFiles
    /\ observations = <<>>
    /\ page = 0
    /\ new_observations = <<>>
    /\ valid_request = TRUE
    /\ response = NoResponse
    /\ numRequests = 0
    /\ merged_observations = <<>>
    /\ numWrites = 0
    /\ result = <<>>
    /\ ReduceIdle

\* Lines 207-248: load the cache if the file exists, set up the loop.
LoadCache ==
    /\ pc = "start"
    /\ observations' = IF cacheFile.exists THEN cacheFile.data ELSE <<>>
    /\ page' = 1
    /\ new_observations' = <<>>
    /\ valid_request' = TRUE
    /\ pc' = "loop"
    /\ UNCHANGED <<cacheFile, response, numRequests, merged_observations, numWrites, result, reduceOnly>>

\* Lines 251-252: one requests.get for the current page.
Request(status, results) ==
    /\ pc = "loop"
    /\ numRequests < MaxRequests
    /\ numRequests' = numRequests + 1
    /\ response' = [status_code |-> status, results |-> results]

\* Mutant of RateLimited: the 429 branch falls through to "page += 1".
RateLimitedAdvancesPage ==
    /\ Request(429, <<>>)
    /\ page' = page + 1
    /\ UNCHANGED <<pc, cacheFile, observations, new_observations, valid_request,
                   merged_observations, numWrites, result, reduceOnly>>

\* Lines 253-256: 429, sleep BACKOFF, same page again.
RateLimited ==
    /\ Request(429, <<>>)
    /\ UNCHANGED <<pc, cacheFile, observations, page, new_observations, valid_request,
                   merged_observations, numWrites, result, reduceOnly>>

\* Lines 258-261: 422, leave the loop.
InvalidRequest ==
    /\ Request(422, <<>>)
    /\ valid_request' = FALSE
    /\ pc' = "merge"
    /\ UNCHANGED <<cacheFile, observations, page, new_observations,
                   merged_observations, numWrites, result, reduceOnly>>

\* Lines 263-266: any other non-200 status, sleep 5 s, same page again.
OtherError ==
    /\ \E status \in OtherStatuses : Request(status, <<>>)
    /\ UNCHANGED <<pc, cacheFile, observations, page, new_observations, valid_request,
                   merged_observations, numWrites, result, reduceOnly>>

\* Lines 268-279: a 200 response.
PageOK ==
    \E results \in Pages :
        /\ Request(200, results)
        /\ IF results = <<>>
           THEN /\ pc' = "merge"
                /\ UNCHANGED <<page, new_observations>>
           ELSE /\ new_observations' = new_observations \o results
                /\ IF Len(results) < PER_PAGE
                   THEN pc' = "merge" /\ UNCHANGED page
                   ELSE pc' = "loop" /\ page' = page + 1
        /\ UNCHANGED <<cacheFile, observations, valid_request,
                       merged_observations, numWrites, result, reduceOnly>>

\* Line 282.
ExistingIds(obs) == {obs[i].id : i \in 1..Len(obs)}

\* Lines 283-287: the cached list followed by the fetched records whose id is
\* not in the cache.
Merge(obs, new) == obs \o SelectSeq(new, LAMBDA o : o.id \notin ExistingIds(obs))

\* Mutant of HasNew: the merged list is written on every run.
HasNewAlways(new) == TRUE

\* Line 281.
HasNew(new) == new # <<>>

\* Lines 281-289 and 297-301: after the loop.  With new records the merged list
\* is built and open(obs_cache_fp, "w") truncates the cache file; without, the
\* cached list is returned.
MergeOrReturn ==
    /\ pc = "merge"
    /\ IF HasNew(new_observations)
       THEN /\ merged_observations' = Merge(observations, new_observations)
            /\ cacheFile' = [exists |-> TRUE, data |-> <<>>, complete |-> FALSE]
            /\ numWrites' = numWrites + 1
            /\ pc' = "dump"
            /\ UNCHANGED result
       ELSE /\ result' = observations
            /\ pc' = "done"
            /\ UNCHANGED <<merged_observations, cacheFile, numWrites>>
    /\ UNCHANGED <<observations, page, new_observations, valid_request, response, numRequests, reduceOnly>>

\* Line 290: json.dump writes the list to the open file piece by piece.
DumpChunk ==
    /\ pc = "dump"
    /\ Len(cacheFile.data) < Len(merged_observations)
    /\ cacheFile' = [cacheFile EXCEPT !.data = Append(@, merged_observations[Len(@) + 1])]
    /\ UNCHANGED <<pc, observations, page, new_observations, valid_request, response,
                   numRequests, merged_observations, numWrites, result, reduceOnly>>

\* Lines 290-296: the last piece is written, the file is closed, the merged
\* list is returned.
CloseAndReturn ==
    /\ pc = "dump"
    /\ Len(cacheFile.data) = Len(merged_observations)
    /\ cacheFile' = [cacheFile EXCEPT !.complete = TRUE]
    /\ result' = merged_observations
    /\ pc' = "done"
    /\ UNCHANGED <<observations, page, new_observations, valid_request, response,
                   numRequests, merged_observations, numWrites, reduceOnly>>

\* Lines 289-290: an I/O failure (or the end of the process) while the file is
\* open for writing propagates and ends the run.
WriteFailure ==
    /\ pc = "dump"
    /\ pc' = "failed"
    /\ UNCHANGED <<cacheFile, observations, page, new_observations, valid_request, response,
                   numRequests, merged_observations, numWrites, result, reduceOnly>>

NextFetch ==
    \/ LoadCache
    \/ RateLimited
    \/ InvalidRequest
    \/ OtherError
    \/ PageOK
    \/ MergeOrReturn
    \/ DumpChunk
    \/ CloseAndReturn
    \/ WriteFailure

SpecFetch == InitFetch /\ [][NextFetch]_vars

\* ------------------------------------------- list_leaf_taxa_by_date: reducer

\* Lines 38-47.
INFRARANKS ==
    {"subspecies", "variety", "form", "infraspecies", "subvariety", "subform",
     "cultivar", "race"}

\* Rank strings the observations carry: the species rank, an infra-specific
\* rank of INFRARANKS written with a capital, and two ranks INFRARANKS does not
\* list, one above species and one below.
Ranks == {"species", "Subspecies", "genus", "infrahybrid"}

\* str.lower on the rank strings (line 113).
Lower(rank) ==
    CASE rank = "Subspecies" -> "subspecies"
      [] OTHER -> rank

\* title_case on the rank strings (lines 170, 304-307).
title_case(text) ==
    CASE text = "species" -> "Species"
      [] text = "genus" -> "Genus"
      [] text = "infrahybrid" -> "Infrahybrid"
      [] OTHER -> text

\* The date "9999-99-99" of lines 129-130 and 141: it compares greater than
\* every observation date.
NoDateSentinel == MaxDate + 1

\* An observation without a taxon (line 75: "if not taxon").
NoTaxon == [id |-> None, rank |-> "", ancestor_ids |-> <<>>]

Min(a, b) == IF a <= b THEN a ELSE b

\* dict operations; a dict of info records is the sequence of its values in
\* insertion order, each value carrying its key in .id.
DictKeys(d) == {d[i].id : i \in 1..Len(d)}

DictGet(d, k) == d[CHOOSE i \in 1..Len(d) : d[i].id = k]

DictPut(d, rec) ==
    IF rec.id \in DictKeys(d)
    THEN [i \in 1..Len(d) |-> IF d[i].id = rec.id THEN rec ELSE d[i]]
    ELSE Append(d, rec)

\* dict.get(k, default) and d[k] = v on the date dict, a function on its keys.
GetOr(m, k, default) == IF k \in DOMAIN m THEN m[k] ELSE default

SetKey(m, k, v) == [x \in (DOMAIN m) \cup {k} |-> IF x = k THEN v ELSE m[x]]

\* Lines 78-90: the info stored for the taxon of one observation; the taxon's
\* own id is dropped from its ancestor list.
TaxonInfoOf(taxon) ==
    [id |-> taxon.id,
     rank |-> taxon.rank,
     ancestor_ids |-> SelectSeq(taxon.ancestor_ids, LAMBDA a : a # taxon.id)]

\* Lines 73-90: taxon_id_to_info after the first n observations.
RECURSIVE TaxonInfoUpTo(_, _)
TaxonInfoUpTo(obs, n) ==
    IF n = 0 THEN <<>>
    ELSE LET prev == TaxonInfoUpTo(obs, n - 1)
         IN  IF obs[n].taxon = NoTaxon THEN prev
             ELSE DictPut(prev, TaxonInfoOf(obs[n].taxon))

\* Lines 91-97: the date dict after one more dated observation of taxon_id.
RecordDate(m, taxon_id, obs_date) ==
    SetKey(m, taxon_id,
           IF taxon_id \in DOMAIN m
           THEN Min(GetOr(m, taxon_id, obs_date), obs_date)
           ELSE obs_date)

\* Lines 73-97: taxon_id_to_date_first_observed after the first n observations.
RECURSIVE FirstDatesUpTo(_, _)
FirstDatesUpTo(obs, n) ==
    IF n = 0 THEN <<>>
    ELSE LET prev == FirstDatesUpTo(obs, n - 1)
         IN  IF obs[n].taxon = NoTaxon \/ obs[n].observed_on = None THEN prev
             ELSE RecordDate(prev, obs[n].taxon.id, obs[n].observed_on)

\* Lines 100-102.
AllAncestorIds(infos) == UNION {Range(infos[i].ancestor_ids) : i \in 1..Len(infos)}

\* Mutant of IsLeaf: ancestors are not excluded.
IsLeafNoExclusion(taxon_id, ancestors) == TRUE

\* Line 107: the test that keeps a taxon as a leaf candidate.
IsLeaf(taxon_id, ancestors) == taxon_id \notin ancestors

\* Lines 104-108.
LeafTaxa(infos, ancestors) == SelectSeq(infos, LAMBDA info : IsLeaf(info.id, ancestors))

\* Lines 116-122: scan ancestors[1..i] from the last to the first for an
\* observed taxon of rank "species"; None when there is none.
RECURSIVE ScanReversed(_, _, _)
ScanReversed(ancestors, i, infos) ==
    IF i = 0 THEN None
    ELSE IF /\ ancestors[i] \in DictKeys(infos)
            /\ DictGet(infos, ancestors[i]).rank = "species"
         THEN ancestors[i]
         ELSE ScanReversed(ancestors, i - 1, infos)

\* Mutant of SpeciesIdOf: the rank is compared without lower().
SpeciesIdOfCaseSensitive(info, infos) ==
    IF info.rank \in INFRARANKS
    THEN ScanReversed(info.ancestor_ids, Len(info.ancestor_ids), infos)
    ELSE None

\* Lines 113-122: species_id for one leaf candidate.
SpeciesIdOf(info, infos) ==
    IF Lower(info.rank) \in INFRARANKS
    THEN ScanReversed(info.ancestor_ids, Len(info.ancestor_ids), infos)
    ELSE None

\* Mutant of CollapsedDate: the species' own date is overwritten.
CollapsedDateOverwrite(m, parent_id, taxon_id) == GetOr(m, taxon_id, NoDateSentinel)

\* Lines 128-131: the date stored for the species after one collapse.
CollapsedDate(m, parent_id, taxon_id) ==
    Min(GetOr(m, parent_id, NoDateSentinel), GetOr(m, taxon_id, NoDateSentinel))

\* Lines 124-133: one iteration of the collapse loop on the pair
\* [collapsed |-> dict, dates |-> date dict].
CollapseOne(acc, info, infos) ==
    LET species_id == SpeciesIdOf(info, infos)
    IN  IF species_id # None
        THEN LET parent == DictGet(infos, species_id)
             IN  [collapsed |-> DictPut(acc.collapsed, parent),
                  dates |-> SetKey(acc.dates, parent.id,
                                   CollapsedDate(acc.dates, parent.id, info.id))]
        ELSE [collapsed |-> DictPut(acc.collapsed, info), dates |-> acc.dates]

\* Lines 111-133: the collapse loop over the first n leaf candidates.
RECURSIVE CollapseUpTo(_, _, _, _)
CollapseUpTo(leaves, n, infos, dates) ==
    IF n = 0 THEN [collapsed |-> <<>>, dates |-> dates]
    ELSE CollapseOne(CollapseUpTo(leaves, n - 1, infos, dates), leaves[n], infos)

\* Mutant of SortKey: a missing date sorts first.
SortKeyUndatedFirst(info, dates) == GetOr(dates, info.id, 0)

\* Lines 139-142: the sort key of one entry.
SortKey(info, dates) == GetOr(dates, info.id, NoDateSentinel)

\* sorted() is stable: x goes after every entry whose key is not greater.
InsertSorted(s, x, dates) ==
    LET k == Cardinality({i \in 1..Len(s) : SortKey(s[i], dates) <= SortKey(x, dates)})
    IN  SubSeq(s, 1, k) \o <<x>> \o SubSeq(s, k + 1, Len(s))

\* Lines 137-143: sorted() on the first n entries.
RECURSIVE SortedUpTo(_, _, _)
SortedUpTo(s, n, dates) ==
    IF n = 0 THEN <<>>
    ELSE InsertSorted(SortedUpTo(s, n - 1, dates), s[n], dates)

\* Lines 166-172: the report row of the i-th sorted entry (names left out).
RowOf(i, info, dates) ==
    [index |-> i, date |-> dates[info.id], rank |-> title_case(info.rank),
     taxon_id |-> info.id]

\* Ancestor chains from the root down: up to MaxAnc taxon ids, no repetition.
AncestorChains ==
    {a \in SeqsUpTo(1..MaxTaxon, MaxAnc) : \A i, j \in 1..Len(a) : i # j => a[i] # a[j]}

\* The chains describe one tree: the chain of an observed taxon on the chain of
\* t is the part of t's chain above it.
OneTree(chain) ==
    \A t \in DOMAIN chain :
        /\ t \notin Range(chain[t])
        /\ \A i \in 1..Len(chain[t]) :
               chain[t][i] \in DOMAIN chain =>
                   chain[chain[t][i]] = SubSeq(chain[t], 1, i - 1)

\* The observation list in which observation i is of taxon tids[i] on date
\* dates[i]; a taxon carries the same fields in each of its observations, and
\* its ancestor_ids is its chain followed by its own id.
ObservationList(tids, rank, chain, dates) ==
    [i \in 1..Len(tids) |->
        IF tids[i] = None
        THEN [taxon |-> NoTaxon, observed_on |-> dates[i]]
        ELSE [taxon |-> [id |-> tids[i], rank |-> rank[tids[i]],
                         ancestor_ids |-> chain[tids[i]] \o <<tids[i]>>],
              observed_on |-> dates[i]]]

FetchIdle ==
    /\ cacheFile = NoFile
    /\ page = 0
    /\ new_observations = <<>>
    /\ valid_request = TRUE
    /\ response = NoResponse
    /\ numRequests = 0
    /\ merged_observations = <<>>
    /\ numWrites = 0
    /\ result = <<>>

\* Line 69 has returned: observations holds the full observation list.
InitReduce ==
    /\ pc = "reduce"
    /\ \E n \in 0..MaxObs :
         \E tids \in [1..n -> 0..MaxTaxon] :
           \E chain \in [Range(tids) \ {None} -> AncestorChains] :
                /\ OneTree(chain)
                /\ \E rank \in [Range(tids) \ {None} -> Ranks] :
                     \E dates \in [1..n -> 0..MaxDate] :
                        /\ \A i \in 1..n : tids[i] = None => dates[i] = None
                        /\ observations = ObservationList(tids, rank, chain, dates)
    /\ FetchIdle
    /\ ReduceIdle

\* Lines 70-97: the loop over the observations.
BuildTaxonMaps ==
    /\ pc = "reduce"
    /\ taxon_id_to_info' = TaxonInfoUpTo(observations, Len(observations))
    /\ taxon_id_to_date_first_observed' = FirstDatesUpTo(observations, Len(observations))
    /\ pc' = "exclude"
    /\ UNCHANGED <<observations, fetchOnly, ancestor_ids, leaf_taxon_id_to_info,
                   collapsed_taxon_id_to_info, sorted_leaf_taxon_id_info_tuples, rows>>

\* Lines 99-108.
ExcludeAncestors ==
    /\ pc = "exclude"
    /\ ancestor_ids' = AllAncestorIds(taxon_id_to_info)
    /\ leaf_taxon_id_to_info' = LeafTaxa(taxon_id_to_info, AllAncestorIds(taxon_id_to_info))
    /\ pc' = "collapse"
    /\ UNCHANGED <<observations, fetchOnly, taxon_id_to_info, taxon_id_to_date_first_observed,
                   collapsed_taxon_id_to_info, sorted_leaf_taxon_id_info_tuples, rows>>

\* Lines 110-133.
CollapseInfraRanks ==
    /\ pc = "collapse"
    /\ LET out == CollapseUpTo(leaf_taxon_id_to_info, Len(leaf_taxon_id_to_info),
                               taxon_id_to_info, taxon_id_to_date_first_observed)
       IN  /\ collapsed_taxon_id_to_info' = out.collapsed
           /\ taxon_id_to_date_first_observed' = out.dates
    /\ pc' = "sort"
    /\ UNCHANGED <<observations, fetchOnly, taxon_id_to_info, ancestor_ids,
                   leaf_taxon_id_to_info, sorted_leaf_taxon_id_info_tuples, rows>>

\* Lines 135-162: sort; with no leaf taxa the run returns, otherwise the report
\* file is opened.
SortLeafTaxa ==
    /\ pc = "sort"
    /\ sorted_leaf_taxon_id_info_tuples' =
           SortedUpTo(collapsed_taxon_id_to_info, Len(collapsed_taxon_id_to_info),
                      taxon_id_to_date_first_observed)
    /\ pc' = IF Len(collapsed_taxon_id_to_info) = 0 THEN "done" ELSE "write"
    /\ UNCHANGED <<observations, fetchOnly, taxon_id_to_info, taxon_id_to_date_first_observed,
                   ancestor_ids, leaf_taxon_id_to_info, collapsed_taxon_id_to_info, rows>>

\* Lines 165-173: one row of the report.
WriteRow ==
    /\ pc = "write"
    /\ Len(rows) < Len(sorted_leaf_taxon_id_info_tuples)
    /\ LET i == Len(rows) + 1
           info == sorted_leaf_taxon_id_info_tuples[i]
       IN  /\ info.id \in DOMAIN taxon_id_to_date_first_observed
           /\ rows' = Append(rows, RowOf(i, info, taxon_id_to_date_first_observed))
    /\ UNCHANGED <<pc, observations, fetchOnly, taxon_id_to_info,
                   taxon_id_to_date_first_observed, ancestor_ids, leaf_taxon_id_to_info,
                   collapsed_taxon_id_to_info, sorted_leaf_taxon_id_info_tuples>>

\* Line 167: the date lookup of a taxon without an entry raises KeyError, which
\* ends the run.
RaiseKeyError ==
    /\ pc = "write"
    /\ Len(rows) < Len(sorted_leaf_taxon_id_info_tuples)
    /\ sorted_leaf_taxon_id_info_tuples[Len(rows) + 1].id
           \notin DOMAIN taxon_id_to_date_first_observed
    /\ pc' = "KeyError"
    /\ UNCHANGED <<observations, fetchOnly, reduceOnly>>

\* Lines 173-178: the last row is written, the file is closed.
FinishReport ==
    /\ pc = "write"
    /\ Len(rows) = Len(sorted_leaf_taxon_id_info_tuples)
    /\ pc' = "done"
    /\ UNCHANGED <<observations, fetchOnly, reduceOnly>>

NextReduce ==
    \/ BuildTaxonMaps
    \/ ExcludeAncestors
    \/ CollapseInfraRanks
    \/ SortLeafTaxa
    \/ WriteRow
    \/ RaiseKeyError
    \/ FinishReport

SpecReduce == InitReduce /\ [][NextReduce]_vars

\* ------------------------------------------------------------------ claims
\* Notions of the claims, read off the observation list itself.

MaxOf(S) == CHOOSE m \in S : \A x \in S : x <= m

MinOf(S) == CHOOSE m \in S : \A x \in S : m <= x

Occurrences(infos, id) == Cardinality({i \in 1..Len(infos) : infos[i].id = id})

ObservedTaxa == {observations[i].taxon.id : i \in 1..Len(observations)} \ {None}

LastObservationOf(t) ==
    observations[MaxOf({i \in 1..Len(observations) : observations[i].taxon.id = t})]

StoredRank(t) == LastObservationOf(t).taxon.rank

StoredAncestorSeq(t) ==
    SelectSeq(LastObservationOf(t).taxon.ancestor_ids, LAMBDA a : a # t)

StoredAncestors(t) == Range(StoredAncestorSeq(t))

InOtherAncestorList(t) == \E u \in ObservedTaxa \ {t} : t \in StoredAncestors(u)

\* The rank spellings of Ranks that are infra-specific up to case.
HasInfraRank(t) == StoredRank(t) \in INFRARANKS \cup {"Subspecies"}

ObservedSpeciesAncestors(t) ==
    {s \in StoredAncestors(t) \cap ObservedTaxa : StoredRank(s) = "species"}

\* The observed species closest to t in t's ancestor list.
NearestSpecies(t) ==
    LET anc == StoredAncestorSeq(t)
    IN  anc[MaxOf({i \in 1..Len(anc) : anc[i] \in ObservedSpeciesAncestors(t)})]

\* The infra-rank leaf candidates that collapse into species s.
CollapsedInto(s) ==
    {t \in ObservedTaxa : /\ ~InOtherAncestorList(t)
                          /\ HasInfraRank(t)
                          /\ ObservedSpeciesAncestors(t) # {}
                          /\ NearestSpecies(t) = s}

DatesOf(t) ==
    {observations[i].observed_on :
        i \in {j \in 1..Len(observations) : observations[j].taxon.id = t}} \ {None}

\* The dates that bear on the first-observed date of a final leaf taxon.
SourceDates(s) == DatesOf(s) \cup UNION {DatesOf(t) : t \in CollapsedInto(s)}

FinalKeys == DictKeys(collapsed_taxon_id_to_info)

AfterCollapse == pc \in {"sort", "write", "done", "KeyError"}

AfterSort == pc \in {"write", "done", "KeyError"}

\* C1 (as stated): no taxon id of the final leaf set appears in the stored
\* ancestor list of another observed taxon.
C1_Original ==
    AfterCollapse => \A k \in FinalKeys : ~InOtherAncestorList(k)

\* C1 (amended): every taxon id of the final leaf set either appears in no
\* other observed taxon's stored ancestor list, or is a taxon of rank
\* "species" into which an infra-rank leaf taxon was collapsed.
C1_LeafOrCollapsedSpecies ==
    AfterCollapse =>
        \A k \in FinalKeys :
            InOtherAncestorList(k) => StoredRank(k) = "species" /\ CollapsedInto(k) # {}

\* C1 witness: a collapsed species is in the final set while an observed
\* ancestor above it was excluded.
C1_Witness ==
    /\ AfterCollapse
    /\ \E k \in FinalKeys : InOtherAncestorList(k)
    /\ \E g \in ObservedTaxa \ FinalKeys : InOtherAncestorList(g) /\ ~HasInfraRank(g)

\* C2 (as stated): an observed infra-rank taxon with an observed species in
\* its ancestor list is not in the final output, and each such species is in
\* the final output exactly once.
C2_Original ==
    AfterCollapse =>
        \A t \in ObservedTaxa :
            HasInfraRank(t) /\ ObservedSpeciesAncestors(t) # {} =>
                /\ t \notin FinalKeys
                /\ \A s \in ObservedSpeciesAncestors(t) :
                       Occurrences(collapsed_taxon_id_to_info, s) = 1

\* C2 (amended): an observed infra-rank taxon with an observed species in its
\* ancestor list is not in the final output; if it is moreover a leaf
\* candidate (in no stored ancestor list), the nearest such species of its
\* ancestor list is in the final output exactly once.
C2_InfraLeafCollapsesToNearestSpecies ==
    AfterCollapse =>
        \A t \in ObservedTaxa :
            HasInfraRank(t) /\ ObservedSpeciesAncestors(t) # {} =>
                /\ t \notin FinalKeys
                /\ ~InOtherAncestorList(t) =>
                       /\ Occurrences(collapsed_taxon_id_to_info, NearestSpecies(t)) = 1
                       /\ AfterSort =>
                              Occurrences(sorted_leaf_taxon_id_info_tuples,
                                          NearestSpecies(t)) = 1

\* C2 witness: two infra-rank leaf taxa have collapsed into the same species.
C2_Witness ==
    /\ AfterSort
    /\ \E s \in FinalKeys : Cardinality(CollapsedInto(s)) >= 2

\* C3: after the collapse loop the date recorded for a species that received a
\* collapse is the minimum of the dates of its own observations and of the
\* observations of the infra-rank leaf taxa collapsed into it.
C3_CollapsedDateIsMinimum ==
    AfterCollapse =>
        \A s \in ObservedTaxa :
            CollapsedInto(s) # {} /\ SourceDates(s) # {} =>
                /\ s \in DOMAIN taxon_id_to_date_first_observed
                /\ taxon_id_to_date_first_observed[s] = MinOf(SourceDates(s))

\* C3 witness: a species with a dated observation of its own received two
\* collapses, one of them with an earlier date.
C3_Witness ==
    /\ AfterCollapse
    /\ \E s \in FinalKeys :
           /\ Cardinality(CollapsedInto(s)) >= 2
           /\ DatesOf(s) # {}
           /\ taxon_id_to_date_first_observed[s] < MinOf(DatesOf(s))

\* C4: a leaf taxon without any dated observation (and without a dated taxon
\* collapsed into it) does not abort the run: the report is completed with a
\* row for it after the rows of all dated leaf taxa.
C4_UndatedLeafGetsRow ==
    (AfterSort /\ \E k \in FinalKeys : SourceDates(k) = {}) =>
        /\ pc # "KeyError"
        /\ pc = "done" =>
               \A k \in FinalKeys :
                   SourceDates(k) = {} =>
                       \E i \in 1..Len(rows) :
                           /\ rows[i].taxon_id = k
                           /\ \A j \in 1..Len(rows) :
                                  SourceDates(rows[j].taxon_id) # {} => j < i

\* C9: the sorted output is the final leaf set in non-decreasing order of
\* first-observed date, every entry without a date after every dated entry.
C9_SortedByFirstDate ==
    AfterSort =>
        LET out == sorted_leaf_taxon_id_info_tuples
            Resolved(k) == IF k \in DOMAIN taxon_id_to_date_first_observed
                           THEN taxon_id_to_date_first_observed[k]
                           ELSE NoDateSentinel
        IN  /\ Len(out) = Len(collapsed_taxon_id_to_info)
            /\ \A k \in FinalKeys : Occurrences(out, k) = 1
            /\ \A i, j \in 1..Len(out) : i < j => Resolved(out[i].id) <= Resolved(out[j].id)
            /\ \A i, j \in 1..Len(out) :
                   SourceDates(out[i].id) = {} /\ SourceDates(out[j].id) # {} => j < i

\* C9 witness: three leaf taxa, the undated one observed between the two
\* dated ones and the later date observed first.
C9_Witness ==
    /\ AfterSort
    /\ Len(sorted_leaf_taxon_id_info_tuples) = 3
    /\ SourceDates(collapsed_taxon_id_to_info[2].id) = {}
    /\ SourceDates(collapsed_taxon_id_to_info[1].id) # {}
    /\ SourceDates(collapsed_taxon_id_to_info[3].id) # {}
    /\ taxon_id_to_date_first_observed[collapsed_taxon_id_to_info[3].id]
           < taxon_id_to_date_first_observed[collapsed_taxon_id_to_info[1].id]

\* C5: the list fetch_observations returns and writes holds no id twice.
C5_MergedIdsDistinct ==
    /\ DistinctIds(merged_observations)
    /\ pc = "done" => DistinctIds(result) /\ DistinctIds(cacheFile.data)

\* C6: after a 422 no further request is made and the cached list is returned,
\* nothing fetched in the run being returned or written.
C6_InvalidRequestReturnsCache ==
    ~valid_request =>
        /\ response.status_code = 422
        /\ pc \notin {"loop"}
        /\ numWrites = 0
        /\ pc = "done" => result = observations

\* C7: if the run fails during the cache write, the cache file holds the
\* complete previous list or the complete merged list.
C7_CacheWriteAtomic ==
    pc = "failed" =>
        /\ cacheFile.exists => cacheFile.complete
        /\ cacheFile.data \in {observations, merged_observations}

\* C8: with a cache present and an empty first successful page, the cache file
\* is not written and keeps its contents, and the cached list is returned
\* unchanged.
C8_EmptyFirstPageLeavesCache ==
    (cacheFile.exists /\ page = 1 /\ response.status_code = 200 /\ response.results = <<>>) =>
        /\ numWrites = 0
        /\ cacheFile = CompleteFile(observations)
        /\ new_observations = <<>>
        /\ pc \in {"merge", "done"}
        /\ pc = "done" => result = observations

\* C8 witness: the run is over, the cache was not empty, and the first
\* successful page, reached after a retry, was empty.
C8_Witness ==
    /\ pc = "done"
    /\ cacheFile.exists
    /\ Len(observations) > 0
    /\ page = 1
    /\ response.status_code = 200
    /\ response.results = <<>>
    /\ numRequests >= 2

\* C10: in the pagination loop a 429 or other non-200, non-422 response is
\* followed by a request for the same page with nothing added; the page number
\* grows only by one and only on a 200 response with a full page, whose results
\* are appended once; so in the loop the fetched list holds exactly the pages
\* before the current one.
C10_PageAdvance ==
    /\ [][(pc = "loop" /\ numRequests' # numRequests) =>
            /\ response'.status_code \in {429} \cup OtherStatuses =>
                   pc' = "loop" /\ page' = page /\ new_observations' = new_observations
            /\ page' # page =>
                   /\ page' = page + 1
                   /\ response'.status_code = 200
                   /\ Len(response'.results) = PER_PAGE
                   /\ new_observations' = new_observations \o response'.results
            /\ (response'.status_code = 200 /\ Len(response'.results) = PER_PAGE) =>
                   page' = page + 1 /\ pc' = "loop"]_vars
    /\ [](pc = "loop" => Len(new_observations) = (page - 1) * PER_PAGE)

\* C10 witness: a 429 and another error were answered on page 2, which is
\* still the page to request.
C10_Witness ==
    /\ pc = "loop"
    /\ page = 2
    /\ response.status_code \in {429} \cup OtherStatuses
    /\ numRequests >= 3
    /\ Len(new_observations) = PER_PAGE

====
